---- MODULE Spec2Model ----
(***************************************************************************)
(* Key rotation controller of architecture_competition_analyzer_v4.7.py:   *)
(* try_with_multi_project_keys, the error classifier parse_error_message   *)
(* and the session state they share with the sidebar key validation.       *)
(***************************************************************************)
EXTENDS Integers, Sequences, FiniteSets, TLC

(* ---------------------------------------------------------------------- *)
(* Bounds                                                                  *)
(* ---------------------------------------------------------------------- *)

\* number of GOOGLE_API_KEY_<i> ordinals considered (the code scans 1..25)
MaxKeys == 3

\* largest max_retries_per_key a session runs with (the flow passes 2)
MaxRetries == 2

\* polls after which a polling loop without a bound of its own is cut off
MaxPolls == 32

Ordinals == 1..MaxKeys

\* the third component of a return value when it is None
NoCred == 0

(* ---------------------------------------------------------------------- *)
(* parse_error_message                                                     *)
(* ---------------------------------------------------------------------- *)

\* An error text is modelled by the set of substrings it contains, out of
\* the ones the classifier looks for ("quota" stands for any casing).
Markers == {"429", "quota", "503"}

ErrorTexts == SUBSET Markers

\* The same with the casings of "quota" apart, and "500" for a status the
\* classifier does not know.
AllMarkers == Markers \cup {"Quota", "QUOTA", "500"}

AnyErrorTexts == SUBSET AllMarkers

\* error_str.lower(): the substrings of the lowered text
Lower(text) == {IF m \in {"Quota", "QUOTA"} THEN "quota" ELSE m : m \in text}

\* a plausible slip: the text is not lowered before the "quota" test
parse_error_message_case_sensitive(error_str) ==
    IF "429" \in error_str \/ "quota" \in error_str THEN "quota_exceeded"
    ELSE IF "503" \in error_str THEN "server_error"
    ELSE "unknown"

parse_error_message(error_str) ==
    IF "429" \in error_str \/ "quota" \in Lower(error_str) THEN "quota_exceeded"
    ELSE IF "503" \in error_str THEN "server_error"
    ELSE "unknown"

\* What re.search(r'retry.*?(\d+)', error_str) finds: nothing (NoMatch), or
\* the digits after the first "retry", a natural number of any size.
NoMatch == -1

RetryMatches == {NoMatch, 0, 1, 9, 49, 50, 51, 60, 300, 100000}

\* error_info["retry_seconds"]: lines 445-446, 456, 462
RetrySeconds(error_str, retry_match) ==
    CASE parse_error_message(error_str) = "quota_exceeded" ->
             IF retry_match = NoMatch THEN 60 ELSE retry_match
      [] parse_error_message(error_str) = "server_error" -> 30
      [] OTHER -> 0

Min(a, b) == IF a <= b THEN a ELSE b

\* a plausible slip: the quota branch sleeps the whole hint
SleepTenths_uncapped(type, retry_sec) == 10 * retry_sec

\* The argument of time.sleep in tenths of a second: min(5, retry_sec / 10)
\* seconds after a quota error (line 524), retry_seconds seconds after a
\* server error (line 528).
SleepTenths(type, retry_sec) ==
    IF type = "quota_exceeded" THEN Min(50, retry_sec) ELSE 10 * retry_sec

\* time.sleep has not been called
NotSlept == -1

NoPause == [retry_match |-> NoMatch, retry_seconds |-> 0, slept |-> NotSlept]

(* ---------------------------------------------------------------------- *)
(* call_func: the unit of work                                             *)
(* ---------------------------------------------------------------------- *)

\* One call of the work either returns ("ok") or raises an error text.
Returned == [ok |-> TRUE, text |-> {}]
Raised(t) == [ok |-> FALSE, text |-> t]

CallOutcomes == {Returned} \cup {Raised(t) : t \in ErrorTexts}

\* The works a caller may pass: "any" may do anything at each call,
\* "success" and "quota" always end the same way, "last_ok" raises a quota
\* error under every key of the list but the last and returns under the last.
Works == {"any", "success", "quota", "last_ok"}

QuotaOutcomes ==
    {Raised(t) : t \in {u \in ErrorTexts : parse_error_message(u) = "quota_exceeded"}}

\* what a call of work w can do when the key at 0-based index idx of a list
\* of n keys is in effect
call_func(w, idx, n) ==
    CASE w = "any"     -> CallOutcomes
      [] w = "success" -> {Returned}
      [] w = "quota"   -> QuotaOutcomes
      [] w = "last_ok" -> IF idx = n - 1 THEN {Returned} ELSE QuotaOutcomes

(* ---------------------------------------------------------------------- *)
(* State                                                                   *)
(* ---------------------------------------------------------------------- *)

VARIABLES
    valid_keys,           \* st.session_state['valid_keys']: ordinals of the valid keys, in order
    has_rotation_state,   \* 'current_project_idx' and 'project_fail_count' are in st.session_state
    current_project_idx,  \* st.session_state.current_project_idx (0-based)
    project_fail_count,   \* st.session_state.project_fail_count, read as .get(project, 0)
    pc,                   \* "idle": no invocation running; "loop": at the while test
    api_keys_info,        \* argument of the running / last invocation
    max_retries_per_key,  \* argument of every invocation of the session
    work,                 \* call_func of the running / last invocation
    attempts,             \* local counter of the loop
    result,               \* how the last invocation ended
    iters,                \* loop bodies entered in this invocation
    calls,                \* work invocations made in this invocation
    entry,                \* rotation state when this invocation was entered, and the key its files were uploaded under
    last,                 \* what the last loop iteration did
    prev,                 \* how the invocation right before this one went, when its work was "success"
    configured_key,       \* the key genai.configure was last given (process-wide)
    tried,                \* keys that failed with a quota or server error in this invocation
    environ,              \* GOOGLE_API_KEY_<i> of the environment a loader reads
    validation,           \* the ordinals whose key validate_api_key finds valid
    loaded,               \* what the loader that ran returned
    error_str,            \* text of an error given to parse_error_message
    error_info,           \* the type parse_error_message returned for it
    threads,              \* two sessions of one process, each in its own invocation
    upload,               \* one run of an upload function: the remote file and the polling loop
    pause                 \* the retry hint of the error text, and the time.sleep after it

\* the state of the controller and of the session
main == <<valid_keys, has_rotation_state, current_project_idx, project_fail_count,
          pc, api_keys_info, max_retries_per_key, work, attempts, result,
          iters, calls, entry, last, prev, configured_key, tried>>

\* the inputs and results of the loaders and of the classifier run alone
aux == <<environ, validation, loaded, error_str, error_info, threads, upload, pause>>

vars == <<main, aux>>

session == <<has_rotation_state, current_project_idx, project_fail_count>>
args == <<api_keys_info, work>>

\* every increasing list of ordinals: what load_and_validate_api_keys can return
RECURSIVE IncreasingLists(_)
IncreasingLists(n) ==
    IF n = 0 THEN {<<>>}
    ELSE IncreasingLists(n - 1) \cup {Append(s, n) : s \in IncreasingLists(n - 1)}

KeyLists == IncreasingLists(MaxKeys)

NoResult == [kind |-> "none", ok |-> FALSE, msg |-> "", cred |-> NoCred]
Return(ok, msg, cred) == [kind |-> "return", ok |-> ok, msg |-> msg, cred |-> cred]
RaiseIndexError == [kind |-> "raise", ok |-> FALSE, msg |-> "IndexError", cred |-> NoCred]

NoLast == [kind |-> "none", idx |-> 0, cred |-> NoCred, cnt |-> 0, ambient |-> NoCred]

NoPrev == [result |-> NoResult, idx |-> 0]

NoEntry == [created |-> FALSE, idx |-> 0, fails |-> [p \in Ordinals |-> 0],
            uploaded |-> NoCred]

\* The dict {}. Lines 490-491 store 0 for a project before its count is
\* read, so a missing project and a stored 0 are the same to the code: the
\* dict is kept as the total map it is read as.
EmptyMap == [p \in Ordinals |-> 0]

\* d[p] = v
Put(d, p, v) == [d EXCEPT ![p] = v]

FailCount(p) == project_fail_count[p]

(* ---------------------------------------------------------------------- *)
(* Loading the keys: load_and_validate_api_keys, get_api_keys              *)
(* ---------------------------------------------------------------------- *)

\* What GOOGLE_API_KEY_<i> can hold: nothing ("None"), the empty string, only
\* white space (" "), or a key ("key", with or without white space around).
EnvValues == {"None", "", " ", "key"}

Environs == [Ordinals -> EnvValues]

\* os.getenv(name, default)
Getenv(env, i, default) == IF env[i] = "None" THEN default ELSE env[i]

\* str.strip()
Strip(v) == IF v = " " THEN "" ELSE v

\* the truth value Python gives to None and to a string
Truthy(v) == v \notin {"None", ""}

\* validate_api_key(...)["valid"]: the remote service decides
validate_api_key(ok, i) == i \in ok

NothingLoaded ==
    [fn |-> "none", valid_keys |-> <<>>, invalid_keys |-> <<>>,
     validation_results |-> <<>>, keys |-> <<>>, configured |-> NoCred]

\* a plausible slip: the else of line 397 is missing, so every key found
\* also goes to invalid_keys
RECURSIVE LoadFrom_no_else(_, _, _, _)
LoadFrom_no_else(i, env, ok, acc) ==
    IF i > MaxKeys THEN acc
    ELSE LET key == Getenv(env, i, "")
             valid == validate_api_key(ok, i)
         IN  IF Truthy(Strip(key))
             THEN LoadFrom_no_else(i + 1, env, ok,
                    [acc EXCEPT
                       !.validation_results = Append(@, [index |-> i, valid |-> valid]),
                       !.valid_keys = IF valid THEN Append(@, i) ELSE @,
                       !.invalid_keys = Append(@, i),
                       !.configured = i])
             ELSE LoadFrom_no_else(i + 1, env, ok, acc)

\* the loop of load_and_validate_api_keys from ordinal i on; acc.configured
\* is the key validate_api_key configured last
RECURSIVE LoadFrom(_, _, _, _)
LoadFrom(i, env, ok, acc) ==
    IF i > MaxKeys THEN acc
    ELSE LET key == Getenv(env, i, "")
             valid == validate_api_key(ok, i)
         IN  IF Truthy(Strip(key))
             THEN LoadFrom(i + 1, env, ok,
                    [acc EXCEPT
                       !.validation_results = Append(@, [index |-> i, valid |-> valid]),
                       !.valid_keys = IF valid THEN Append(@, i) ELSE @,
                       !.invalid_keys = IF valid THEN @ ELSE Append(@, i),
                       !.configured = i])
             ELSE LoadFrom(i + 1, env, ok, acc)

load_and_validate_api_keys(env, ok) ==
    LoadFrom(1, env, ok, [NothingLoaded EXCEPT !.fn = "load_and_validate_api_keys"])

\* the loop of get_api_keys (setup_api_key.py) from ordinal i on; an entry
\* is the stripped value, kept with the ordinal it came from
RECURSIVE GetFrom(_, _, _)
GetFrom(i, env, keys) ==
    IF i > MaxKeys THEN keys
    ELSE LET k == Getenv(env, i, "None")
         IN  IF Truthy(k)
             THEN GetFrom(i + 1, env, Append(keys, [index |-> i, key |-> Strip(k)]))
             ELSE GetFrom(i + 1, env, keys)

get_api_keys(env) == GetFrom(1, env, <<>>)

\* the environment in which exactly the ordinals of present hold a key
EnvOf(present) == [o \in Ordinals |-> IF o \in present THEN "key" ELSE "None"]

\* what a run of load_and_validate_api_keys can leave behind, over every
\* environment and every verdict of the remote service: the list of valid
\* keys and the key configured last
ValidateOutcomes ==
    {<<r.valid_keys, r.configured>> :
        r \in {load_and_validate_api_keys(EnvOf(present), ok) :
                   present \in SUBSET Ordinals, ok \in SUBSET Ordinals}}

\* the sessions (script threads) of the process that run the analysis at the
\* same time
Sessions == {1, 2}

\* a session that has not entered try_with_multi_project_keys: no rotation
\* state in its st.session_state yet. key_info is the key of the iteration
\* under way, ambient the key in effect when the call that ended the
\* invocation was made.
IdleThread ==
    [pc |-> "idle", current_project_idx |-> 0, project_fail_count |-> EmptyMap,
     attempts |-> 0, key_info |-> NoCred, ambient |-> NoCred, result |-> NoResult]

NoThreads == [s \in Sessions |-> IdleThread]

\* no upload function has been called
NoUpload ==
    [fn |-> "none", pc |-> "idle", state |-> "none", waited |-> 0, polls |-> 0,
     result |-> "none"]

\* nothing has been given to a loader or to the classifier
AuxIdle ==
    /\ environ = EnvOf({})
    /\ validation = {}
    /\ loaded = NothingLoaded
    /\ error_str = {}
    /\ error_info = "none"
    /\ threads = NoThreads
    /\ upload = NoUpload
    /\ pause = NoPause

\* the session and the controller before anything has run
MainInit ==
    /\ valid_keys = <<>>
    /\ has_rotation_state = FALSE
    /\ current_project_idx = 0
    /\ project_fail_count = EmptyMap
    /\ pc = "idle"
    /\ api_keys_info = <<>>
    /\ max_retries_per_key \in 1..MaxRetries
    /\ work = "any"
    /\ attempts = 0
    /\ result = NoResult
    /\ iters = 0
    /\ calls = 0
    /\ entry = NoEntry
    /\ last = NoLast
    /\ prev = NoPrev
    /\ configured_key = NoCred
    /\ tried = {}

Init == MainInit /\ AuxIdle

(* ---------------------------------------------------------------------- *)
(* Sidebar: the key validation button                                      *)
(* ---------------------------------------------------------------------- *)

\* Which keys are present and valid is decided by the environment and the
\* remote service; the result keeps the ordinals in increasing order. The
\* button starts a new run of the script: only st.session_state survives,
\* what the run before left in its locals is gone.
Validate ==
    /\ pc = "idle"
    /\ \E r \in ValidateOutcomes :
          /\ valid_keys' = r[1]
          /\ configured_key' = IF r[2] = NoCred THEN configured_key ELSE r[2]
    /\ tried' = {}
    /\ api_keys_info' = <<>>
    /\ work' = "any"
    /\ attempts' = 0
    /\ result' = NoResult
    /\ iters' = 0
    /\ calls' = 0
    /\ entry' = NoEntry
    /\ last' = NoLast
    /\ prev' = NoPrev
    /\ UNCHANGED <<session, pc, max_retries_per_key, aux>>

(* ---------------------------------------------------------------------- *)
(* try_with_multi_project_keys                                             *)
(* ---------------------------------------------------------------------- *)

total_keys == Len(api_keys_info)

\* a plausible slip: one attempt too many
MaxAttempts_plus_one(n, m) == n * m + 1

\* a plausible slip: one attempt too few
MaxAttempts_short(n, m) == n * m - 1

MaxAttempts(n, m) == n * m

max_attempts == MaxAttempts(total_keys, max_retries_per_key)

\* a plausible slip: no wraparound
NextIdx_no_wrap(idx, n) == IF idx + 1 < n THEN idx + 1 ELSE idx

NextIdx(idx, n) == (idx + 1) % n

\* key_info = api_keys_info[current_idx], with Python's 0-based index
key_info == api_keys_info[current_project_idx + 1]

\* a plausible slip: the files are uploaded under the key the rotation is at
UploadKey_current ==
    IF has_rotation_state /\ current_project_idx < Len(valid_keys)
    THEN valid_keys[current_project_idx + 1]
    ELSE valid_keys[1]

\* line 765: the key the analysis flow configures before it uploads the files
UploadKey == valid_keys[1]

\* lines 763-782: an upload raises; the flow reports it and stops the run
UploadFailed ==
    /\ pc = "idle"
    /\ valid_keys # <<>>
    /\ configured_key' = UploadKey
    /\ tried' = {}
    /\ api_keys_info' = <<>>
    /\ work' = "any"
    /\ attempts' = 0
    /\ result' = NoResult
    /\ iters' = 0
    /\ calls' = 0
    /\ entry' = NoEntry
    /\ last' = NoLast
    /\ prev' = NoPrev
    /\ UNCHANGED <<session, pc, valid_keys, max_retries_per_key, aux>>

\* what every entry of the function records about the invocation before it
Remember(w) ==
    /\ api_keys_info' = valid_keys
    /\ work' = w
    /\ attempts' = 0
    /\ iters' = 0
    /\ calls' = 0
    /\ last' = NoLast
    /\ entry' = [created |-> has_rotation_state, idx |-> current_project_idx,
                 fails |-> project_fail_count,
                 uploaded |-> IF valid_keys = <<>> THEN NoCred ELSE UploadKey]
    /\ prev' = IF work = "success" /\ result.kind # "none"
               THEN [result |-> result, idx |-> current_project_idx]
               ELSE NoPrev
    /\ tried' = {}
    /\ UNCHANGED <<aux, valid_keys, max_retries_per_key>>

\* a plausible slip: the session state is set up before the empty test
InvokeEmpty_creates_state ==
    /\ pc = "idle"
    /\ valid_keys = <<>>
    /\ \E w \in Works : Remember(w)
    /\ has_rotation_state' = TRUE
    /\ result' = Return(FALSE, "no_valid_keys", NoCred)
    /\ UNCHANGED <<current_project_idx, project_fail_count, pc, configured_key>>

\* lines 470-471: no keys
InvokeEmpty ==
    /\ pc = "idle"
    /\ valid_keys = <<>>
    /\ \E w \in Works : Remember(w)
    /\ result' = Return(FALSE, "no_valid_keys", NoCred)
    /\ UNCHANGED <<session, pc, configured_key>>

\* a plausible slip: the session state is set up anew at every call
InvokeStart_resets ==
    /\ pc = "idle"
    /\ valid_keys # <<>>
    /\ \E w \in Works : Remember(w)
    /\ configured_key' = UploadKey
    /\ has_rotation_state' = TRUE
    /\ current_project_idx' = 0
    /\ project_fail_count' = EmptyMap
    /\ result' = NoResult
    /\ pc' = "loop"

\* lines 763-778, 818, 473-481: the analysis flow uploads the files under
\* the first valid key and calls the function, which sets up the session
\* state and the loop
InvokeStart ==
    /\ pc = "idle"
    /\ valid_keys # <<>>
    /\ \E w \in Works : Remember(w)
    /\ configured_key' = UploadKey
    /\ has_rotation_state' = TRUE
    /\ current_project_idx' = IF has_rotation_state THEN current_project_idx ELSE 0
    /\ project_fail_count' = IF has_rotation_state THEN project_fail_count ELSE EmptyMap
    /\ result' = NoResult
    /\ pc' = "loop"

\* line 483 false, line 536
Exhausted ==
    /\ pc = "loop"
    /\ ~(attempts < max_attempts)
    /\ result' = Return(FALSE, "all_exhausted", NoCred)
    /\ pc' = "idle"
    /\ UNCHANGED <<configured_key, tried>>
    /\ UNCHANGED <<aux, valid_keys, max_retries_per_key, session, args, attempts, iters, calls, entry, last, prev>>

\* line 485 with current_idx beyond the list: IndexError leaves the function
IndexOutOfRange ==
    /\ pc = "loop"
    /\ attempts < max_attempts
    /\ ~(current_project_idx < total_keys)
    /\ result' = RaiseIndexError
    /\ iters' = iters + 1
    /\ last' = [kind |-> "index_error", idx |-> current_project_idx, cred |-> NoCred,
                cnt |-> 0, ambient |-> configured_key]
    /\ pc' = "idle"
    /\ UNCHANGED <<configured_key, tried>>
    /\ UNCHANGED <<aux, valid_keys, max_retries_per_key, session, args, attempts, calls, entry, prev>>

\* the loop body reaches line 490 with a key selected
Selected ==
    /\ pc = "loop"
    /\ attempts < max_attempts
    /\ current_project_idx < total_keys

\* a plausible slip: genai.configure is not called before the work
ConfiguredAtCall_stale == configured_key

\* the key in effect when call_func() runs at line 504: line 500 has just
\* configured the selected one
ConfiguredAtCall == key_info

\* what an iteration saw: the index and key it selected, the key's count
\* then, and the key in effect when the iteration called the work (for a
\* skip, which calls nothing, the key in effect then)
Seen(kind) ==
    [kind |-> kind, idx |-> current_project_idx, cred |-> key_info, cnt |-> FailCount(key_info),
     ambient |-> IF kind = "skip" THEN configured_key ELSE ConfiguredAtCall]

\* a plausible slip: a key is skipped only once it is beyond the bound
OverBudget_strict(cnt, m) == cnt > m

\* line 493: the key has used up its failures
OverBudget(cnt, m) == cnt >= m

\* lines 493-497: the key has used up its failures
Skip ==
    /\ Selected
    /\ OverBudget(FailCount(key_info), max_retries_per_key)
    /\ project_fail_count' = Put(project_fail_count, key_info, FailCount(key_info))
    /\ current_project_idx' = NextIdx(current_project_idx, total_keys)
    /\ attempts' = attempts + 1
    /\ iters' = iters + 1
    /\ last' = Seen("skip")
    /\ UNCHANGED <<configured_key, tried>>
    /\ UNCHANGED <<aux, valid_keys, max_retries_per_key, has_rotation_state, pc, args, result, calls, entry, prev>>

\* the work is called (line 504) and ends with outcome o
Called(o) ==
    /\ Selected
    /\ ~OverBudget(FailCount(key_info), max_retries_per_key)
    /\ configured_key' = ConfiguredAtCall
    /\ o \in call_func(work, current_project_idx, total_keys)
    /\ iters' = iters + 1
    /\ calls' = calls + 1

\* a plausible slip: the next call starts from the next key
Success_advances ==
    /\ Called(Returned)
    /\ project_fail_count' = Put(project_fail_count, key_info, 0)
    /\ current_project_idx' = NextIdx(current_project_idx, total_keys)
    /\ result' = Return(TRUE, "payload", key_info)
    /\ last' = Seen("success")
    /\ UNCHANGED tried
    /\ pc' = "idle"
    /\ UNCHANGED <<aux, valid_keys, max_retries_per_key, has_rotation_state, args, attempts, entry, prev>>

\* a plausible slip: the success is recorded but the loop goes on
Success_continues ==
    /\ Called(Returned)
    /\ project_fail_count' = Put(project_fail_count, key_info, 0)
    /\ result' = Return(TRUE, "payload", key_info)
    /\ last' = Seen("success")
    /\ UNCHANGED tried
    /\ attempts' = attempts + 1
    /\ UNCHANGED <<aux, valid_keys, max_retries_per_key, has_rotation_state, current_project_idx, pc, args, entry, prev>>

\* a plausible slip: the failure count is not reset
Success_keeps_count ==
    /\ Called(Returned)
    /\ result' = Return(TRUE, "payload", key_info)
    /\ last' = Seen("success")
    /\ UNCHANGED tried
    /\ pc' = "idle"
    /\ UNCHANGED <<aux, valid_keys, max_retries_per_key, session, args, attempts, entry, prev>>

\* a plausible slip: a success clears the whole dict
Success_resets_all ==
    /\ Called(Returned)
    /\ project_fail_count' = EmptyMap
    /\ result' = Return(TRUE, "payload", key_info)
    /\ last' = Seen("success")
    /\ UNCHANGED tried
    /\ pc' = "idle"
    /\ UNCHANGED <<aux, valid_keys, max_retries_per_key, has_rotation_state, current_project_idx, args, attempts, entry, prev>>

\* lines 504-510
Success ==
    /\ Called(Returned)
    /\ project_fail_count' = Put(project_fail_count, key_info, 0)
    /\ result' = Return(TRUE, "payload", key_info)
    /\ last' = Seen("success")
    /\ UNCHANGED tried
    /\ pc' = "idle"
    /\ UNCHANGED <<aux, valid_keys, max_retries_per_key, has_rotation_state, current_project_idx, args, attempts, entry, prev>>

\* a plausible slip: a quota error does not switch to the next key
QuotaError_stays ==
    /\ \E t \in ErrorTexts :
          /\ Called(Raised(t))
          /\ parse_error_message(t) = "quota_exceeded"
    /\ project_fail_count' = Put(project_fail_count, key_info, FailCount(key_info) + 1)
    /\ attempts' = attempts + 1
    /\ last' = Seen("quota_exceeded")
    /\ tried' = tried \cup {key_info}
    /\ UNCHANGED <<aux, valid_keys, max_retries_per_key, has_rotation_state, current_project_idx, pc, args, result, entry, prev>>

\* lines 512-524, 534
QuotaError ==
    /\ \E t \in ErrorTexts :
          /\ Called(Raised(t))
          /\ parse_error_message(t) = "quota_exceeded"
    /\ project_fail_count' = Put(project_fail_count, key_info, FailCount(key_info) + 1)
    /\ current_project_idx' = NextIdx(current_project_idx, total_keys)
    /\ attempts' = attempts + 1
    /\ last' = Seen("quota_exceeded")
    /\ tried' = tried \cup {key_info}
    /\ UNCHANGED <<aux, valid_keys, max_retries_per_key, has_rotation_state, pc, args, result, entry, prev>>

\* a plausible slip: a server error rotates like a quota error
ServerError_rotates ==
    /\ \E t \in ErrorTexts :
          /\ Called(Raised(t))
          /\ parse_error_message(t) = "server_error"
    /\ project_fail_count' = Put(project_fail_count, key_info, FailCount(key_info) + 1)
    /\ current_project_idx' = NextIdx(current_project_idx, total_keys)
    /\ attempts' = attempts + 1
    /\ last' = Seen("server_error")
    /\ tried' = tried \cup {key_info}
    /\ UNCHANGED <<aux, valid_keys, max_retries_per_key, has_rotation_state, pc, args, result, entry, prev>>

\* lines 512-515, 526-528, 534
ServerError ==
    /\ \E t \in ErrorTexts :
          /\ Called(Raised(t))
          /\ parse_error_message(t) = "server_error"
    /\ project_fail_count' = Put(project_fail_count, key_info, FailCount(key_info) + 1)
    /\ attempts' = attempts + 1
    /\ last' = Seen("server_error")
    /\ tried' = tried \cup {key_info}
    /\ UNCHANGED <<aux, valid_keys, max_retries_per_key, has_rotation_state, current_project_idx, pc, args, result, entry, prev>>

\* a plausible slip: an unclassified error rotates like a quota error
FatalError_rotates ==
    /\ \E t \in ErrorTexts :
          /\ Called(Raised(t))
          /\ parse_error_message(t) = "unknown"
    /\ project_fail_count' = Put(project_fail_count, key_info, FailCount(key_info) + 1)
    /\ current_project_idx' = NextIdx(current_project_idx, total_keys)
    /\ attempts' = attempts + 1
    /\ last' = Seen("unknown")
    /\ UNCHANGED tried
    /\ UNCHANGED <<aux, valid_keys, max_retries_per_key, has_rotation_state, pc, args, result, entry, prev>>

\* a plausible slip: an error that ends the invocation is not counted
FatalError_keeps_count ==
    /\ \E t \in ErrorTexts :
          /\ Called(Raised(t))
          /\ parse_error_message(t) = "unknown"
    /\ result' = Return(FALSE, "error_text", key_info)
    /\ last' = Seen("unknown")
    /\ UNCHANGED tried
    /\ pc' = "idle"
    /\ UNCHANGED <<aux, valid_keys, max_retries_per_key, session, args, attempts, entry, prev>>

\* lines 512-515, 530-532
FatalError ==
    /\ \E t \in ErrorTexts :
          /\ Called(Raised(t))
          /\ parse_error_message(t) = "unknown"
    /\ project_fail_count' = Put(project_fail_count, key_info, FailCount(key_info) + 1)
    /\ result' = Return(FALSE, "error_text", key_info)
    /\ last' = Seen("unknown")
    /\ UNCHANGED tried
    /\ pc' = "idle"
    /\ UNCHANGED <<aux, valid_keys, max_retries_per_key, has_rotation_state, current_project_idx, args, attempts, entry, prev>>

Next ==
    \/ Validate
    \/ UploadFailed
    \/ InvokeEmpty
    \/ InvokeStart
    \/ Exhausted
    \/ IndexOutOfRange
    \/ Skip
    \/ Success
    \/ QuotaError
    \/ ServerError
    \/ FatalError

Spec == Init /\ [][Next]_vars

(* ---------------------------------------------------------------------- *)
(* The loaders run alone, on every environment                             *)
(* ---------------------------------------------------------------------- *)

LoadInit ==
    /\ MainInit
    /\ environ \in Environs
    /\ validation \in SUBSET Ordinals
    /\ loaded = NothingLoaded
    /\ error_str = {}
    /\ error_info = "none"
    /\ threads = NoThreads
    /\ upload = NoUpload
    /\ pause = NoPause

\* v4.7: load_and_validate_api_keys()
RunLoadAndValidate ==
    /\ loaded.fn = "none"
    /\ loaded' = load_and_validate_api_keys(environ, validation)
    /\ UNCHANGED <<main, environ, validation, error_str, error_info, threads, upload, pause>>

\* setup_api_key.py: get_api_keys()
RunGetApiKeys ==
    /\ loaded.fn = "none"
    /\ loaded' = [NothingLoaded EXCEPT !.fn = "get_api_keys", !.keys = get_api_keys(environ)]
    /\ UNCHANGED <<main, environ, validation, error_str, error_info, threads, upload, pause>>

LoadNext ==
    \/ RunLoadAndValidate
    \/ RunGetApiKeys

LoadSpec == LoadInit /\ [][LoadNext]_vars

(* ---------------------------------------------------------------------- *)
(* The classifier run alone, on every error text                           *)
(* ---------------------------------------------------------------------- *)

ClassifyInit ==
    /\ MainInit
    /\ environ = EnvOf({})
    /\ validation = {}
    /\ loaded = NothingLoaded
    /\ error_str \in AnyErrorTexts
    /\ error_info = "none"
    /\ threads = NoThreads
    /\ upload = NoUpload
    /\ pause \in {[NoPause EXCEPT !.retry_match = h] : h \in RetryMatches}

\* error_info = parse_error_message(e): the type and the retry_seconds
Classify ==
    /\ error_info = "none"
    /\ error_info' = parse_error_message(error_str)
    /\ pause' = [pause EXCEPT !.retry_seconds = RetrySeconds(error_str, pause.retry_match)]
    /\ UNCHANGED <<main, environ, validation, loaded, error_str, threads, upload>>

\* lines 517-528: the pause of the except branch for a retryable error
Sleep ==
    /\ error_info \in {"quota_exceeded", "server_error"}
    /\ pause.slept = NotSlept
    /\ pause' = [pause EXCEPT !.slept = SleepTenths(error_info, pause.retry_seconds)]
    /\ UNCHANGED <<main, environ, validation, loaded, error_str, error_info, threads, upload>>

ClassifyNext ==
    \/ Classify
    \/ Sleep

ClassifySpec == ClassifyInit /\ [][ClassifyNext]_vars

(* ---------------------------------------------------------------------- *)
(* Two sessions of one process in try_with_multi_project_keys at once      *)
(* ---------------------------------------------------------------------- *)

\* Streamlit runs the script of every session in a thread of one process:
\* st.session_state is per session, the key given to genai.configure is
\* kept in the module and so is process-wide (configured_key). A thread's
\* steps are cut where it touches the shared key: lines 483-500 (loop test,
\* selection, skip or configure) and lines 504-534 (the call and what
\* follows it).

\* everything of the single session but the process-wide key
own == <<valid_keys, has_rotation_state, current_project_idx, project_fail_count,
         pc, api_keys_info, max_retries_per_key, work, attempts, result,
         iters, calls, entry, last, prev, tried>>

\* every ordinal holds a valid key
AllKeys == [i \in 1..MaxKeys |-> i]

\* both sessions validated the keys of the same environment; line 818 passes
\* max_retries_per_key = 2
RaceInit ==
    /\ MainInit
    /\ max_retries_per_key = 2
    /\ environ = EnvOf(Ordinals)
    /\ validation = Ordinals
    /\ loaded = NothingLoaded
    /\ error_str = {}
    /\ error_info = "none"
    /\ threads = NoThreads
    /\ upload = NoUpload
    /\ pause = NoPause

ThreadSet(s, t) ==
    /\ threads' = [threads EXCEPT ![s] = t]
    /\ UNCHANGED <<own, environ, validation, loaded, error_str, error_info, upload, pause>>

\* key_info = api_keys_info[current_idx] of session s
ThreadKey(s) == AllKeys[threads[s].current_project_idx + 1]

ThreadMaxAttempts == MaxAttempts(Len(AllKeys), max_retries_per_key)

\* lines 765, 818, 467-481: the analysis button of session s; the upload
\* configures the first valid key
ThreadInvoke(s) ==
    /\ threads[s].pc = "idle"
    /\ configured_key' = AllKeys[1]
    /\ ThreadSet(s, [threads[s] EXCEPT !.pc = "loop"])

\* line 483 false, line 536
ThreadExhausted(s) ==
    /\ threads[s].pc = "loop"
    /\ ~(threads[s].attempts < ThreadMaxAttempts)
    /\ UNCHANGED configured_key
    /\ ThreadSet(s, [threads[s] EXCEPT !.pc = "done",
          !.result = Return(FALSE, "all_exhausted", NoCred)])

\* lines 483-497
ThreadSkip(s) ==
    /\ threads[s].pc = "loop"
    /\ threads[s].attempts < ThreadMaxAttempts
    /\ OverBudget(threads[s].project_fail_count[ThreadKey(s)], max_retries_per_key)
    /\ UNCHANGED configured_key
    /\ ThreadSet(s, [threads[s] EXCEPT
          !.current_project_idx = NextIdx(@, Len(AllKeys)),
          !.attempts = @ + 1])

\* lines 483-500: genai.configure(api_key=api_key)
ThreadConfigure(s) ==
    /\ threads[s].pc = "loop"
    /\ threads[s].attempts < ThreadMaxAttempts
    /\ ~OverBudget(threads[s].project_fail_count[ThreadKey(s)], max_retries_per_key)
    /\ configured_key' = ThreadKey(s)
    /\ ThreadSet(s, [threads[s] EXCEPT !.pc = "calling", !.key_info = ThreadKey(s)])

\* a plausible slip: every session is taken to have a client of its own
AmbientAtCall_private(s) == threads[s].key_info

\* the key call_func() of session s runs under at line 504: the one the
\* process has configured then
AmbientAtCall(s) == configured_key

\* line 504 in session s ends with outcome o
ThreadCalled(s, o) ==
    /\ threads[s].pc = "calling"
    /\ o \in call_func("any", threads[s].current_project_idx, Len(AllKeys))
    /\ UNCHANGED configured_key

\* lines 504-510
ThreadSuccess(s) ==
    /\ ThreadCalled(s, Returned)
    /\ ThreadSet(s, [threads[s] EXCEPT
          !.pc = "done",
          !.ambient = AmbientAtCall(s),
          !.project_fail_count = Put(@, threads[s].key_info, 0),
          !.result = Return(TRUE, "payload", threads[s].key_info)])

\* lines 512-524, 534
ThreadQuotaError(s) ==
    /\ \E t \in ErrorTexts :
          /\ ThreadCalled(s, Raised(t))
          /\ parse_error_message(t) = "quota_exceeded"
    /\ ThreadSet(s, [threads[s] EXCEPT
          !.pc = "loop",
          !.key_info = NoCred,
          !.project_fail_count = Put(@, threads[s].key_info, @[threads[s].key_info] + 1),
          !.current_project_idx = NextIdx(@, Len(AllKeys)),
          !.attempts = @ + 1])

\* lines 512-515, 526-528, 534
ThreadServerError(s) ==
    /\ \E t \in ErrorTexts :
          /\ ThreadCalled(s, Raised(t))
          /\ parse_error_message(t) = "server_error"
    /\ ThreadSet(s, [threads[s] EXCEPT
          !.pc = "loop",
          !.key_info = NoCred,
          !.project_fail_count = Put(@, threads[s].key_info, @[threads[s].key_info] + 1),
          !.attempts = @ + 1])

\* lines 512-515, 530-532
ThreadFatalError(s) ==
    /\ \E t \in ErrorTexts :
          /\ ThreadCalled(s, Raised(t))
          /\ parse_error_message(t) = "unknown"
    /\ ThreadSet(s, [threads[s] EXCEPT
          !.pc = "done",
          !.ambient = AmbientAtCall(s),
          !.project_fail_count = Put(@, threads[s].key_info, @[threads[s].key_info] + 1),
          !.result = Return(FALSE, "error_text", threads[s].key_info)])

RaceNext ==
    \E s \in Sessions :
        \/ ThreadInvoke(s)
        \/ ThreadExhausted(s)
        \/ ThreadSkip(s)
        \/ ThreadConfigure(s)
        \/ ThreadSuccess(s)
        \/ ThreadQuotaError(s)
        \/ ThreadServerError(s)
        \/ ThreadFatalError(s)

RaceSpec == RaceInit /\ [][RaceNext]_vars

(* ---------------------------------------------------------------------- *)
(* The upload functions and their polling loops                            *)
(* ---------------------------------------------------------------------- *)

\* upload_to_gemini of v4.7, upload_pdf_to_gemini of v4.0, upload_to_gemini
\* of setup_api_key.py
UploadFunctions == {"v4.7", "v4.0", "setup_api_key"}

\* gemini_file.state.name, as the remote service reports it
FileStates == {"PROCESSING", "ACTIVE", "FAILED"}

\* v4.7 line 422
max_wait == 60

\* the seconds a poll sleeps: time.sleep(2), time.sleep(1), time.sleep(2)
SleepSeconds(fn) == IF fn = "v4.0" THEN 1 ELSE 2

\* a plausible slip: v4.7 polls like the other two, without a bound
KeepsPolling_unbounded(fn, state, waited) == state = "PROCESSING"

\* the while tests: v4.7 line 424, v4.0 line 206, setup_api_key.py line 62
KeepsPolling(fn, state, waited) ==
    /\ state = "PROCESSING"
    /\ fn = "v4.7" => waited < max_wait

\* what the function does with the file after the loop: v4.7 raises when the
\* file has failed and returns it otherwise, v4.0 returns None when it has
\* failed, setup_api_key.py returns it as it is
AfterLoop(fn, state) ==
    CASE fn = "v4.7" -> IF state = "FAILED" THEN "raise" ELSE "return_file"
      [] fn = "v4.0" -> IF state = "FAILED" THEN "return_None" ELSE "return_file"
      [] fn = "setup_api_key" -> "return_file"

\* what the function does when genai.upload_file or genai.get_file raises:
\* v4.7 raises again (line 437), the other two report and return None
OnApiError(fn) == IF fn = "v4.7" THEN "raise" ELSE "return_None"

UploadInit ==
    /\ MainInit
    /\ environ = EnvOf({})
    /\ validation = {}
    /\ loaded = NothingLoaded
    /\ error_str = {}
    /\ error_info = "none"
    /\ threads = NoThreads
    /\ upload = NoUpload
    /\ pause = NoPause

UploadSet(u) ==
    /\ upload' = u
    /\ UNCHANGED <<main, environ, validation, loaded, error_str, error_info, threads, pause>>

\* genai.upload_file returns the file in some state
UploadFile ==
    /\ upload.pc = "idle"
    /\ \E fn \in UploadFunctions, st \in FileStates :
          UploadSet([NoUpload EXCEPT !.fn = fn, !.pc = "loop", !.state = st])

\* genai.upload_file raises
UploadFileRaises ==
    /\ upload.pc = "idle"
    /\ \E fn \in UploadFunctions :
          UploadSet([NoUpload EXCEPT !.fn = fn, !.pc = "done", !.result = OnApiError(fn)])

\* one turn of the loop: sleep, genai.get_file, and in v4.7 waited += 2
Poll ==
    /\ upload.pc = "loop"
    /\ KeepsPolling(upload.fn, upload.state, upload.waited)
    /\ upload.polls < MaxPolls
    /\ \E st \in FileStates :
          UploadSet([upload EXCEPT
             !.state = st,
             !.polls = @ + 1,
             !.waited = IF upload.fn = "v4.7" THEN @ + SleepSeconds(upload.fn) ELSE @])

\* genai.get_file raises in a turn of the loop
PollRaises ==
    /\ upload.pc = "loop"
    /\ KeepsPolling(upload.fn, upload.state, upload.waited)
    /\ upload.polls < MaxPolls
    /\ UploadSet([upload EXCEPT !.pc = "done", !.result = OnApiError(upload.fn)])

\* the loop test fails: the function ends
LeaveLoop ==
    /\ upload.pc = "loop"
    /\ ~KeepsPolling(upload.fn, upload.state, upload.waited)
    /\ UploadSet([upload EXCEPT !.pc = "done", !.result = AfterLoop(upload.fn, upload.state)])

UploadNext ==
    \/ UploadFile
    \/ UploadFileRaises
    \/ Poll
    \/ PollRaises
    \/ LeaveLoop

\* a function that can take a step takes it: the sleep ends, the call comes back
UploadSpec == UploadInit /\ [][UploadNext]_vars /\ WF_vars(UploadNext)

TypeOK ==
    /\ valid_keys \in KeyLists
    /\ has_rotation_state \in BOOLEAN
    /\ current_project_idx \in 0..MaxKeys
    /\ project_fail_count \in [Ordinals -> 0..MaxRetries]
    /\ pc \in {"idle", "loop"}
    /\ api_keys_info \in KeyLists
    /\ max_retries_per_key \in 1..MaxRetries
    /\ work \in Works
    /\ configured_key \in Ordinals \cup {NoCred}
    /\ tried \subseteq Ordinals

(* ---------------------------------------------------------------------- *)
(* Properties                                                              *)
(* ---------------------------------------------------------------------- *)

N == Len(api_keys_info)
M == max_retries_per_key

\* an invocation on a non-empty list has ended (returned or raised)
Ended == pc = "idle" /\ result.kind # "none" /\ api_keys_info # <<>>

\* the last iteration went back to the loop test: the loop is running, or
\* the test has found the budget used up and the function has returned
BackAtLoopTest ==
    \/ pc = "loop"
    \/ /\ pc = "idle"
       /\ attempts = max_attempts
       /\ result = Return(FALSE, "all_exhausted", NoCred)

\* C1: an invocation on a non-empty list of N keys with bound M enters the
\* loop body at most N*M times and so calls the work at most N*M times,
\* whatever the work does and whatever the session state was: every body
\* that goes back to the loop test has used one unit of the budget.
C1_BoundedAttempts ==
    api_keys_info # <<>> =>
        /\ iters <= N * M
        /\ calls <= iters
        /\ attempts <= N * M
        /\ pc = "loop" => attempts = iters

\* C1 witness: the whole budget was spent on real calls, on more than one key
C1_Witness ==
    /\ Ended
    /\ N >= 2
    /\ iters = N * M
    /\ calls = N * M

\* C2: whenever the loop selects a key from a non-empty list, the index it
\* uses is inside the list (lists may change between invocations).
C2_IndexInRange ==
    (pc = "loop" /\ attempts < max_attempts) =>
        (0 <= current_project_idx /\ current_project_idx < N)

\* C3: with an empty list the function returns (False, no-keys message,
\* None) at once: no loop body, no call of the work, and the session state
\* is as it was, not even created.
C3_EmptyList ==
    (pc = "idle" /\ result.kind # "none" /\ api_keys_info = <<>>) =>
        /\ result = Return(FALSE, "no_valid_keys", NoCred)
        /\ iters = 0
        /\ calls = 0
        /\ has_rotation_state = entry.created
        /\ current_project_idx = entry.idx
        /\ project_fail_count = entry.fails

\* C3 witness: the empty call came before any call that created the state
C3_Witness ==
    /\ pc = "idle"
    /\ api_keys_info = <<>>
    /\ result.msg = "no_valid_keys"
    /\ ~has_rotation_state

\* C4: when the work raises an unclassified error under key k, the function
\* returns (False, text, k) right after that call: the invocation is over,
\* so no further call of the work follows, and the index is the one the
\* key was selected with.
C4_FatalStops ==
    last.kind = "unknown" =>
        /\ pc = "idle"
        /\ result = Return(FALSE, "error_text", last.cred)
        /\ last.cred = api_keys_info[last.idx + 1]
        /\ current_project_idx = last.idx
        /\ attempts = iters - 1

\* C4 witness: the fatal error came after the loop had already rotated
C4_Witness ==
    /\ last.kind = "unknown"
    /\ calls >= 2
    /\ last.idx >= 1
    /\ last.idx + 1 < N

\* C5: after a quota error under the key at index i, that key's count is one
\* more than before, the index is (i + 1) mod N (0 after the last key, also
\* when key 0 has failed in this invocation already) and the loop goes on.
C5_QuotaRotates ==
    last.kind = "quota_exceeded" =>
        /\ project_fail_count[last.cred] = last.cnt + 1
        /\ current_project_idx = (last.idx + 1) % N
        /\ (last.idx = N - 1 => current_project_idx = 0)
        /\ attempts = iters
        /\ BackAtLoopTest

\* C5 witness: the last key of the list failed after the first one had
\* failed in this invocation
C5_Witness ==
    /\ last.kind = "quota_exceeded"
    /\ N >= 2
    /\ last.idx = N - 1
    /\ project_fail_count[api_keys_info[1]] > entry.fails[api_keys_info[1]]
    /\ current_project_idx = 0

C7_FirstSuccessWins ==
    /\ last.kind = "success" =>
          /\ pc = "idle"
          /\ result = Return(TRUE, "payload", last.cred)
          /\ last.cred = api_keys_info[last.idx + 1]
          /\ project_fail_count[last.cred] = 0
    /\ result.ok => last.kind = "success"

\* C7 witness: a key with failures on record succeeds after another failed
C7_Witness ==
    /\ last.kind = "success"
    /\ last.cnt >= 1
    /\ calls >= 2

\* C8 as stated: from every session state, when the work succeeds under the
\* key the invocation starts from, the invocation returns success after
\* exactly one call, the index is as at entry and that key's count is 0.
C8_FirstKeySucceeds ==
    (Ended /\ work = "success") =>
        /\ result.kind = "return"
        /\ result.ok
        /\ calls = 1
        /\ current_project_idx = entry.idx
        /\ project_fail_count[result.cred] = 0

\* C8 amended: when the first loop iteration calls the work under the key
\* the invocation starts from (the key is not skipped) and that call
\* returns, the invocation returns success with that key after exactly one
\* call, the index is as at entry and the key's count is 0.
C8_FirstKeyAttempted ==
    (iters = 1 /\ last.kind = "success") =>
        /\ pc = "idle"
        /\ result = Return(TRUE, "payload", api_keys_info[entry.idx + 1])
        /\ calls = 1
        /\ current_project_idx = entry.idx
        /\ entry.fails[result.cred] < M
        /\ project_fail_count[result.cred] = 0

\* C8 witness: the starting key is not the first of the list and had a
\* failure on record
C8_Witness ==
    /\ iters = 1
    /\ last.kind = "success"
    /\ entry.idx >= 1
    /\ entry.fails[result.cred] >= 1

\* the invocation that just returned and the one right before it both ran
\* on the same non-empty list with a work that always succeeds, and both
\* returned
TwoSuccessWorks ==
    /\ Ended
    /\ work = "success"
    /\ result.kind = "return"
    /\ prev.result.kind = "return"

C10_AllQuotaExhausts ==
    (Ended /\ work = "quota") =>
        /\ calls <= N * M
        /\ result = Return(FALSE, "all_exhausted", NoCred)

\* the keys of the list of this invocation
ListKeys == {api_keys_info[i] : i \in 1..N}

ExhaustedResult == Return(FALSE, "all_exhausted", NoCred)

\* C11: the exhaustion result comes only when no key with budget left was
\* left untried: every key of the list is at its bound or failed with a
\* quota or server error in this invocation.
C11_ExhaustionLeavesNoneUntried ==
    (Ended /\ result = ExhaustedResult) =>
        \A k \in ListKeys : project_fail_count[k] >= M \/ k \in tried

\* a loop body is entered by this step
BodyStep == pc = "loop" /\ iters' = iters + 1

\* C12: a key selected with a count at or beyond the bound is skipped: the
\* work is not called, the index moves to the next one (mod N), the count
\* stays and one unit of the budget is used; and only such a key is skipped.
C12_SkipOverBudget ==
    [][BodyStep /\ current_project_idx < N =>
         /\ (project_fail_count[key_info] >= M) <=> (last'.kind = "skip")
         /\ last'.kind = "skip" =>
              /\ calls' = calls
              /\ configured_key' = configured_key
              /\ project_fail_count' = project_fail_count
              /\ current_project_idx' = (current_project_idx + 1) % N
              /\ attempts' = attempts + 1
              /\ pc' = "loop"
         /\ last'.kind # "skip" =>
              /\ calls' = calls + 1
              /\ (pc' = "loop" => attempts' = attempts + 1)
    ]_vars

\* C12 witness: a skip wrapped the index around to 0
C12_Witness ==
    /\ last.kind = "skip"
    /\ N >= 2
    /\ last.idx = N - 1
    /\ current_project_idx = 0
    /\ project_fail_count[last.cred] >= M

\* C13: a success under key c sets c's count to 0 and leaves the count of
\* every other key as it was.
C13_SuccessResetsOnlyItsKey ==
    [][pc = "loop" /\ result'.ok =>
         /\ project_fail_count'[key_info] = 0
         /\ \A p \in Ordinals \ {key_info} :
               project_fail_count'[p] = project_fail_count[p]
    ]_vars

\* C13 witness: a key succeeded with failures on record while another key
\* of the list is at its bound and stays there
C13_Witness ==
    /\ last.kind = "success"
    /\ last.cnt >= 1
    /\ \E k \in ListKeys \ {last.cred} : project_fail_count[k] >= M

\* C14: the index and the counts live in the session: nothing between two
\* invocations changes them, so an invocation starts with what the one
\* before left; a count goes down only by a success under that key, and a
\* key at its bound is not called.
C14_RotationStatePersists ==
    [][/\ (pc = "idle" /\ has_rotation_state) =>
             /\ has_rotation_state'
             /\ current_project_idx' = current_project_idx
             /\ project_fail_count' = project_fail_count
       /\ \A p \in Ordinals :
             project_fail_count'[p] < project_fail_count[p] =>
                 /\ last'.kind = "success"
                 /\ last'.cred = p
                 /\ p = key_info
       /\ calls' = calls + 1 => project_fail_count[key_info] < M
    ]_vars

\* C14 witness: a key that reached its bound in an earlier invocation is
\* skipped in this one
C14_Witness ==
    /\ last.kind = "skip"
    /\ iters = 1
    /\ entry.created
    /\ entry.fails[last.cred] >= M
    /\ project_fail_count[last.cred] = entry.fails[last.cred]

\* C15: every invocation ends by returning one of (True, payload, key),
\* (False, text, key) after a fatal error, (False, message, None) for
\* exhaustion or no keys; it never ends any other way.
C15_ThreeResultShapes ==
    (pc = "idle" /\ result.kind # "none") =>
        /\ result.kind = "return"
        /\ \/ result.ok /\ result.cred # NoCred /\ result.msg = "payload"
           \/ ~result.ok /\ result.cred # NoCred /\ result.msg = "error_text"
           \/ ~result.ok /\ result.cred = NoCred
                 /\ result.msg \in {"all_exhausted", "no_valid_keys"}

\* the invocation that ended ran "last_ok" on three keys none of which had
\* a failure on record
ThreeKeysLastOk ==
    /\ Ended
    /\ work = "last_ok"
    /\ N = 3
    /\ \A k \in ListKeys : entry.fails[k] = 0

\* C16: keys [A, B, C], bound 2, index 0 and no failures on record, the
\* work raising a quota error under A and B and returning under C: the
\* result is (True, payload, C), A and B end with count 1, C with 0, and
\* the work was called at most 6 times.
C16_ScenarioABC ==
    (ThreeKeysLastOk /\ M = 2 /\ entry.idx = 0) =>
        /\ result = Return(TRUE, "payload", api_keys_info[3])
        /\ project_fail_count[api_keys_info[1]] = 1
        /\ project_fail_count[api_keys_info[2]] = 1
        /\ project_fail_count[api_keys_info[3]] = 0
        /\ calls <= 6

\* C16 witness: the scenario has run, from a session never used before
C16_Witness ==
    /\ ThreeKeysLastOk
    /\ M = 2
    /\ ~entry.created
    /\ calls = 3
    /\ result.ok

C18_SelectedKeyInEffect ==
    /\ last.kind \in {"success", "quota_exceeded", "server_error", "unknown"} =>
          /\ last.ambient = api_keys_info[last.idx + 1]
          /\ last.ambient = last.cred
          /\ configured_key = last.cred
    /\ (result.kind = "return" /\ result.cred # NoCred) =>
          /\ last.kind \in {"success", "unknown"}
          /\ result.cred = last.ambient

\* C18 witness: the key in effect was switched between two calls of one
\* invocation
C18_Witness ==
    /\ result.ok
    /\ calls >= 2
    /\ last.idx # entry.idx
    /\ last.ambient = result.cred

\* a present, non-blank value
NonBlank(v) == v \notin {"None", "", " "}

\* the ordinals a loaded list has an entry for
ValidOrdinals == {loaded.valid_keys[i] : i \in 1..Len(loaded.valid_keys)}
KeyOrdinals == {loaded.keys[i].index : i \in 1..Len(loaded.keys)}

\* C19: a loader's list has an entry for an ordinal exactly when the value
\* of that ordinal is present and non-blank (and, in v4.7, found valid); the
\* other ordinals are left out without error, and the entries are in
\* strictly increasing order of ordinal.
C19_LoadsExactlyNonBlank ==
    /\ loaded.fn = "load_and_validate_api_keys" =>
          /\ \A o \in Ordinals :
                o \in ValidOrdinals <=> (NonBlank(environ[o]) /\ o \in validation)
          /\ \A i, j \in 1..Len(loaded.valid_keys) :
                i < j => loaded.valid_keys[i] < loaded.valid_keys[j]
    /\ loaded.fn = "get_api_keys" =>
          /\ \A o \in Ordinals : o \in KeyOrdinals <=> NonBlank(environ[o])
          /\ \A i, j \in 1..Len(loaded.keys) :
                i < j => loaded.keys[i].index < loaded.keys[j].index

QuotaMarked(text) == "429" \in text \/ text \cap {"quota", "Quota", "QUOTA"} # {}

\* C20: every error text gets exactly one type: quota_exceeded when it holds
\* "429" or "quota" in any casing, also when it holds "503" as well;
\* otherwise server_error when it holds "503"; otherwise unknown.
C20_ClassificationPrioritized ==
    error_info # "none" =>
        /\ error_info \in {"quota_exceeded", "server_error", "unknown"}
        /\ error_info = "quota_exceeded" <=> QuotaMarked(error_str)
        /\ error_info = "server_error" <=> (~QuotaMarked(error_str) /\ "503" \in error_str)
        /\ error_info = "unknown" <=> (~QuotaMarked(error_str) /\ "503" \notin error_str)

\* C20 witness: a text with an upper-case quota marker and "503" is a quota
\* error
C20_Witness ==
    /\ error_info = "quota_exceeded"
    /\ error_str = {"QUOTA", "503"}

\* the other session
Other(s) == CHOOSE t \in Sessions : t # s

\* C21: with two invocations interleaved in one process, the work of a
\* session runs under the key the process has configured last, whichever
\* session configured it, while the session reports the key it selected
\* itself; the two can differ only once the other session has started.
C21_WorkRunsUnderProcessKey ==
    [][\A s \in Sessions :
          /\ (threads[s].pc = "calling" /\ threads'[s].pc = "done") =>
                /\ threads'[s].ambient = configured_key
                /\ threads'[s].result.cred = threads[s].key_info
                /\ threads[s].key_info = ThreadKey(s)
          /\ (threads[s].pc = "calling" /\ configured_key # threads[s].key_info) =>
                /\ threads[Other(s)].pc # "idle"
                /\ configured_key \in Ordinals
    ]_vars

\* C21 witness: a session's work returned while the key in effect was the
\* one the other session had selected, and the session reports its own
C21_Witness ==
    \E s \in Sessions :
        /\ threads[s].result.ok
        /\ threads[s].ambient # threads[s].result.cred
        /\ threads[s].ambient = threads[Other(s)].key_info
        /\ threads[Other(s)].pc = "calling"

\* C22: an unclassified error under a key adds one to that key's count
\* before the function returns, like a retryable one. The count and the
\* index stay in the session, so the next invocation on the same list
\* starts at that key, and once the count is at the bound the key is
\* skipped: the work is not called under it.
C22_FatalCounts ==
    [][/\ (BodyStep /\ last'.kind = "unknown") =>
             /\ project_fail_count' = Put(project_fail_count, key_info, FailCount(key_info) + 1)
             /\ pc' = "idle"
             /\ current_project_idx' = current_project_idx
       /\ (pc = "idle" /\ last.kind = "unknown" /\ pc' = "loop") =>
             /\ project_fail_count' = project_fail_count
             /\ current_project_idx' = last.idx
       /\ (BodyStep /\ current_project_idx < N /\ project_fail_count[key_info] >= M) =>
             /\ calls' = calls
             /\ last'.kind = "skip"
    ]_vars

\* C22 witness: two invocations in a row ended with a fatal error under the
\* same key, and the second has brought the key to a bound of 2
C22_Witness ==
    /\ M = 2
    /\ last.kind = "unknown"
    /\ entry.fails[last.cred] = 1
    /\ iters = 1
    /\ project_fail_count[last.cred] = 2

\* an invocation on a non-empty list is running or has ended
Entered == api_keys_info # <<>> /\ (pc = "loop" \/ result.kind # "none")

\* every key of the list was at the bound when the invocation was entered
AllLockedAtEntry == \A k \in ListKeys : entry.fails[k] >= M

\* C23: with the bound fixed, a key whose count has reached the bound is not
\* attempted again, so its count stays; and once every key of the list is
\* at the bound, every invocation returns the exhaustion result without
\* calling the work, whatever the work would do.
C23_PermanentLockout ==
    /\ Entered =>
          /\ \A p \in Ordinals :
                entry.fails[p] >= M => project_fail_count[p] = entry.fails[p]
          /\ last.kind \in {"success", "quota_exceeded", "server_error", "unknown"} =>
                last.cnt < M
    /\ (Ended /\ AllLockedAtEntry) =>
          /\ result = ExhaustedResult
          /\ calls = 0

\* C24: with the bound fixed at M, the count of every key is between 0 and M
\* in every state: an iteration adds one to a count only when the count is
\* below M, a success sets it to 0, and a skip leaves it.
C24_CountWithinBound ==
    /\ \A p \in Ordinals : 0 <= project_fail_count[p] /\ project_fail_count[p] <= M
    /\ last.kind \in {"quota_exceeded", "server_error", "unknown"} =>
          /\ last.cnt < M
          /\ project_fail_count[last.cred] = last.cnt + 1
    /\ last.kind = "success" => project_fail_count[last.cred] = 0
    /\ last.kind = "skip" =>
          /\ last.cnt = M
          /\ project_fail_count[last.cred] = last.cnt

\* C24 witness: an error has brought a key to a bound of at least 2 while
\* another key of the list is at the bound already
C24_Witness ==
    /\ M >= 2
    /\ last.kind \in {"quota_exceeded", "server_error", "unknown"}
    /\ project_fail_count[last.cred] = M
    /\ \E k \in ListKeys \ {last.cred} : project_fail_count[k] = M

\* the invocation runs a work that always raises a quota error and was
\* entered with the index at 0 and no failure on record for a key of its
\* list, as from a session never used before
FreshAllQuota ==
    /\ Entered
    /\ work = "quota"
    /\ entry.idx = 0
    /\ \A k \in ListKeys : entry.fails[k] = 0

\* C25: from a fresh rotation state with N keys and bound M, when every call
\* of the work raises a quota error, the keys are attempted in the order
\* 0, 1, ..., N-1, 0, 1, ...: after a attempts the index is a mod N, every
\* attempt was a call (no skip), and the key at place j has failed once per
\* round it was reached in; the function returns after exactly N*M calls
\* with every count at M and the index at 0.
C25_RoundRobin ==
    FreshAllQuota =>
        /\ attempts = iters
        /\ calls = iters
        /\ current_project_idx = attempts % N
        /\ \A j \in 1..N :
              project_fail_count[api_keys_info[j]] =
                  (attempts \div N) + (IF j - 1 < attempts % N THEN 1 ELSE 0)
        /\ last.kind \in {"none", "quota_exceeded"}
        /\ last.kind = "quota_exceeded" =>
              /\ last.idx = (attempts - 1) % N
              /\ last.cnt = (attempts - 1) \div N
        /\ pc = "idle" =>
              /\ result = ExhaustedResult
              /\ calls = N * M
              /\ \A k \in ListKeys : project_fail_count[k] = M
              /\ current_project_idx = 0

\* C25 witness: three keys, bound 2, in a session never used before: six
\* calls and the exhaustion result
C25_Witness ==
    /\ FreshAllQuota
    /\ ~entry.created
    /\ pc = "idle"
    /\ N = 3
    /\ M = 2
    /\ calls = 6
    /\ last.idx = 2

\* C26: the files of an analysis are uploaded under the first valid key,
\* wherever the rotation is; so a call of the work at index 0 runs under the
\* key the files were uploaded with, and every call at another index runs
\* under a different key than the files were uploaded with.
C26_UploadUnderFirstKey ==
    Entered =>
        /\ entry.uploaded = api_keys_info[1]
        /\ last.kind \in {"success", "quota_exceeded", "server_error", "unknown"} =>
              (last.ambient = entry.uploaded <=> last.idx = 0)

\* C26 witness: an invocation entered with the rotation already at another
\* index calls the work at once, and the work returns under a key the files
\* were not uploaded with
C26_Witness ==
    /\ Entered
    /\ entry.idx >= 1
    /\ iters = 1
    /\ last.kind = "success"
    /\ last.ambient # entry.uploaded
    /\ result.cred # api_keys_info[1]

\* no call of the remote service has raised in this upload
LoopLeftByTest == upload.pc = "done" /\ upload.result # OnApiError(upload.fn)

\* C27: the loop of upload_to_gemini in v4.7 makes at most 30 polls (60
\* seconds of waiting) and the function always ends, also when the file is in
\* state PROCESSING at every poll; it then returns the file, still in state
\* PROCESSING, as a normal result, and it raises after the loop only for
\* a file in state FAILED. The loops of v4.0 and of setup_api_key.py have no
\* bound: they are left only once the file is no longer in state
\* PROCESSING (or a call of the service raises).
C27_UploadPolling ==
    /\ [](upload.fn = "v4.7" =>
             /\ upload.polls <= 30
             /\ upload.waited = 2 * upload.polls
             /\ upload.waited <= max_wait
             /\ (upload.pc = "done" /\ upload.state = "PROCESSING" /\ upload.polls > 0) =>
                   \/ upload.result = "return_file" /\ upload.waited = max_wait
                   \/ upload.result = "raise" /\ upload.waited < max_wait
             /\ (upload.pc = "done" /\ upload.state = "FAILED") => upload.result = "raise"
             /\ (upload.pc = "done" /\ upload.state = "ACTIVE") => upload.result = "return_file")
    /\ [](upload.fn \in {"v4.0", "setup_api_key"} =>
             /\ (upload.pc = "done" /\ upload.state = "PROCESSING") =>
                   upload.result = "return_None"
             /\ (upload.pc = "done" /\ upload.result = "return_file") =>
                   upload.state # "PROCESSING")
    /\ (upload.fn = "v4.7") ~> (upload.pc = "done")

\* C27 witness: v4.7 has returned a file that was in state PROCESSING at
\* each of its 30 polls
C27_Witness ==
    /\ upload.fn = "v4.7"
    /\ upload.pc = "done"
    /\ upload.polls = 30
    /\ upload.state = "PROCESSING"
    /\ upload.result = "return_file"

\* the ordinals a loaded list has an entry for
InvalidOrdinals == {loaded.invalid_keys[i] : i \in 1..Len(loaded.invalid_keys)}
ResultOrdinals ==
    {loaded.validation_results[i].index : i \in 1..Len(loaded.validation_results)}

\* C28: load_and_validate_api_keys partitions the configured keys: every
\* ordinal with a non-blank value, and no other, has exactly one validation
\* result and is in exactly one of valid_keys and invalid_keys, in
\* valid_keys exactly when its result is valid; so the number of results is
\* the sum of the lengths of the two lists and no ordinal is in both.
C28_LoaderPartitions ==
    loaded.fn = "load_and_validate_api_keys" =>
        /\ ResultOrdinals = {o \in Ordinals : NonBlank(environ[o])}
        /\ Cardinality(ResultOrdinals) = Len(loaded.validation_results)
        /\ Cardinality(ValidOrdinals) = Len(loaded.valid_keys)
        /\ Cardinality(InvalidOrdinals) = Len(loaded.invalid_keys)
        /\ ValidOrdinals \cup InvalidOrdinals = ResultOrdinals
        /\ ValidOrdinals \cap InvalidOrdinals = {}
        /\ \A i \in 1..Len(loaded.validation_results) :
              LET r == loaded.validation_results[i]
              IN  /\ r.valid <=> r.index \in validation
                  /\ r.valid <=> r.index \in ValidOrdinals
                  /\ ~r.valid <=> r.index \in InvalidOrdinals
        /\ Len(loaded.validation_results) =
              Len(loaded.valid_keys) + Len(loaded.invalid_keys)

\* C28 witness: a valid key, an invalid key and a blank value
C28_Witness ==
    /\ loaded.fn = "load_and_validate_api_keys"
    /\ Len(loaded.valid_keys) = 1
    /\ Len(loaded.invalid_keys) = 1
    /\ \E o \in Ordinals : environ[o] = " "

\* C29 as stated: the pause after every retryable error is capped short:
\* min(5, hint / 10) seconds and so at most 5 seconds after a quota error
\* (hint 60 when the text holds none), and after a server error a capped
\* pause too, not the whole retry hint.
C29_PauseCappedShort ==
    pause.slept # NotSlept =>
        /\ pause.slept <= 50
        /\ error_info = "quota_exceeded" =>
              /\ pause.slept = Min(50, pause.retry_seconds)
              /\ pause.retry_match = NoMatch => pause.retry_seconds = 60
        /\ error_info = "server_error" => pause.slept < 10 * pause.retry_seconds

\* C29 amended: after a quota error the pause is min(5, hint / 10) seconds,
\* at most 5 seconds whatever the hint (hint 60, pause 5, when the text
\* holds none); after a server error the pause is the whole retry hint, a
\* constant 30 seconds: bounded, but six times the cap of the quota branch.
C29_PauseBounded ==
    pause.slept # NotSlept =>
        /\ 0 <= pause.slept /\ pause.slept <= 300
        /\ error_info = "quota_exceeded" =>
              /\ pause.slept = Min(50, pause.retry_seconds)
              /\ pause.slept <= 50
              /\ pause.retry_match = NoMatch =>
                    pause.retry_seconds = 60 /\ pause.slept = 50
              /\ pause.retry_match # NoMatch => pause.retry_seconds = pause.retry_match
        /\ error_info = "server_error" =>
              /\ pause.retry_seconds = 30
              /\ pause.slept = 10 * pause.retry_seconds

\* C29 witness: a quota error whose hint is far beyond the cap is followed
\* by a pause of 5 seconds
C29_Witness ==
    /\ error_info = "quota_exceeded"
    /\ pause.retry_match = 100000
    /\ pause.slept = 50

====
